---- MODULE Spec2Model ----
(***************************************************************************)
(* The step-playback sequencer of the tutoring UI (App.tsx, three          *)
(* variants), with the two gateway functions of services/geminiService.ts  *)
(* and the audio helpers of services/audioUtils.ts.                        *)
(*                                                                         *)
(* One action is one browser task: a user event handler, a timer           *)
(* callback, an audio "ended" callback or the continuation of an awaited   *)
(* promise, followed by the React render it causes and the run of the      *)
(* playback effect when one of its dependencies changed.                   *)
(*                                                                         *)
(* Indices are 0-based as in the source; steps is a TLA+ sequence, so the  *)
(* step at index i is steps[i + 1].                                        *)
(***************************************************************************)
EXTENDS Integers, Sequences, FiniteSets, TLC

\* ---------------------------------------------------------------- bounds
MaxSteps == 2
MaxSubmits == 2
MaxTasks == 2
MaxSources == 2
MaxPcmBytes == 8
MaxChannels == 2
MaxBoardLen == 5
MaxTextLen == 2
MaxIntervals == 2

\* ------------------------------------------------------ program constants
PostAudioPauseMs == 1500
FallbackMs == 3000
FallbackPreloadMs == 4000
PcmScale == 32768

Variants == {"preload", "apikey", "immediate"}

VARIABLES
    variant,              \* which App.tsx this is (fixed for a behaviour)
    clientOk,             \* whether getAIClient() succeeds in this build
    apiKey,               \* API-key variant: TRUE iff the key is non-empty
    steps,                \* useState<ExplanationStep[]>
    currentStepIndex,     \* useState(0)
    isPlaying,            \* useState(false)
    isLoading,            \* useState(false)
    audioSourceRef,       \* 0 = null, else the id of an AudioBufferSourceNode
    playingStepIndexRef,  \* -1 = null (pre-loading variant only)
    sources,              \* the AudioBufferSourceNodes, by id
    tasks,                \* armed timers and queued "ended" events of stopped sources
    fetches,              \* background narration requests not yet resolved
    pipeline,             \* the handleSubmit call that is suspended at an await
    submits,              \* number of submissions so far
    startedOver,          \* sources still playing when the last playAudio ran
    lastEvent,            \* the task that produced this state
    attached,             \* indices whose audio was last set by a request of the current submission
    call,                 \* one service function run on its own (none in the application)
    boardVariant,         \* which Blackboard.tsx this is (fixed for a behaviour)
    mounted,              \* whether the Blackboard is rendered
    props,                \* the props of its last render
    displayedCurrentText, \* useState('')
    typingIntervalRef,    \* 0 = null, else the id setInterval returned
    currentAnimatingTextRef, \* NullText = null (text-identity variants only)
    intervals,            \* the intervals not cleared, each with its closure
    effect,               \* the typewriter effect's last run: its dependencies, whether it returned a cleanup
    boardEvent            \* what the Blackboard did last

appVars == <<variant, clientOk, apiKey, steps, currentStepIndex, isPlaying, isLoading,
             audioSourceRef, playingStepIndexRef, sources, tasks, fetches, pipeline,
             submits, startedOver, lastEvent, attached>>

boardVars == <<boardVariant, mounted, props, displayedCurrentText, typingIntervalRef,
               currentAnimatingTextRef, intervals, effect, boardEvent>>

vars == <<appVars, call, boardVars>>

\* currentAnimatingTextRef.current = null
NullText == <<"null">>

\* The props App passes before any submission.
InitialProps == [steps |-> <<>>, currentStepIndex |-> 0, isPlaying |-> FALSE, isSeeking |-> FALSE]

NoEffect == [deps |-> <<>>, cleanup |-> FALSE]

\* The Blackboard reads App's state and never writes it: the application is
\* run without it, and it is run on its own under the props App can pass.
BoardAtRest ==
    /\ boardVariant = "object"
    /\ mounted = FALSE
    /\ props = InitialProps
    /\ displayedCurrentText = <<>>
    /\ typingIntervalRef = 0
    /\ currentAnimatingTextRef = NullText
    /\ intervals = {}
    /\ effect = NoEffect
    /\ boardEvent = [type |-> "init", id |-> 0, ran |-> FALSE, started |-> FALSE, was |-> 0]

\* ------------------------------------------------------------ step data
NoAudio == <<"none", 0, 0>>

\* The decoded narration of a spoken text.
AudioOf(spoken) == <<"audio", spoken[2], spoken[3]>>

\* Step i (0-based) of the g-th submission's generated list.
GenStep(g, i) ==
    [title |-> <<"title", g, i>>, blackboardText |-> <<"board", g, i>>,
     spokenText |-> <<"spoken", g, i>>, audioBuffer |-> NoAudio]

\* The step of generateExplanationSteps' catch block.
ServiceErrorStep ==
    [title |-> <<"svc-error-title", 0, 0>>, blackboardText |-> <<"svc-error-board", 0, 0>>,
     spokenText |-> <<"svc-apology", 0, 0>>, audioBuffer |-> NoAudio]

\* The step of handleSubmit's catch block.
AppErrorStep ==
    [title |-> <<"app-error-title", 0, 0>>, blackboardText |-> <<"app-error-board", 0, 0>>,
     spokenText |-> <<"app-error-spoken", 0, 0>>, audioBuffer |-> NoAudio]

\* ------------------------------------------------------------- gateways
GenOutcomes == {"ok", "requestFails", "parseFails", "schemaFails"}

\* generateExplanationSteps: getAIClient() runs before the try block, so its
\* failure rejects the returned promise; everything else is inside try/catch.
generateExplanationSteps(client, outcome, g, m) ==
    IF ~client THEN [fault |-> TRUE, value |-> <<>>]
    ELSE IF outcome = "ok" THEN [fault |-> FALSE, value |-> [i \in 1..m |-> GenStep(g, i - 1)]]
    ELSE [fault |-> FALSE, value |-> <<ServiceErrorStep>>]

VoiceOutcomes == {"data", "noData", "requestFails"}

\* generateTeacherVoice without its try/catch: a failed request rejects.
generateTeacherVoiceNoCatch(client, outcome, spoken) ==
    IF ~client \/ outcome = "requestFails" THEN [fault |-> TRUE, value |-> <<>>]
    ELSE IF outcome = "data" THEN [fault |-> FALSE, value |-> <<AudioOf(spoken)>>]
    ELSE [fault |-> FALSE, value |-> <<>>]

\* generateTeacherVoice: the payload, or undefined (<<>>).
generateTeacherVoice(client, outcome, spoken) ==
    IF ~client THEN [fault |-> TRUE, value |-> <<>>]
    ELSE IF outcome = "data" THEN [fault |-> FALSE, value |-> <<AudioOf(spoken)>>]
    ELSE [fault |-> FALSE, value |-> <<>>]

DecodeOutcomes == {"decoded", "decodeThrows"}

\* decodeAudioData: has no try/catch; atob or the Int16Array view may throw.
decodeAudioData(outcome, payload) ==
    IF outcome = "decoded" THEN [fault |-> FALSE, value |-> <<payload>>]
    ELSE [fault |-> TRUE, value |-> <<>>]

NoRet == [fault |-> FALSE, value |-> <<>>]

\* `call` holds one invocation of a service function run on its own: its
\* argument and, once it has returned, its result. The application makes none.
NoCall == [fn |-> "none", arg |-> <<>>, phase |-> "none", ret |-> NoRet]

\* --------------------------------------------------------- audio state
NoSource == [st |-> "free", k |-> 0, n |-> 0, buf |-> NoAudio]

Min(S) == CHOOSE x \in S : \A y \in S : x <= y

Playing(srcs) == {i \in DOMAIN srcs : srcs[i].st = "playing"}

\* The refs, sources and task queue, threaded through one browser task.
Audio ==
    [ref |-> audioSourceRef, pidx |-> playingStepIndexRef, sources |-> sources,
     tasks |-> tasks, over |-> {}, ok |-> TRUE]

\* stopCurrentAudio that forgets the source without calling stop() on it.
stopCurrentAudioNoStop(v, au) ==
    LET a1 == [au EXCEPT !.ref = 0] IN
    IF v = "preload" THEN [a1 EXCEPT !.pidx = -1] ELSE a1

\* stopCurrentAudio. source.stop() makes the browser queue the source's
\* "ended" event, whose handler is the onEnded closure given to playAudio.
stopCurrentAudio(v, au) ==
    LET a1 == IF au.ref = 0 THEN au
              ELSE LET s == au.sources[au.ref] IN
                   [au EXCEPT !.sources[au.ref] = NoSource,
                              !.tasks = IF s.st = "playing"
                                        THEN Append(@, [kind |-> "ended", k |-> s.k, n |-> s.n])
                                        ELSE @,
                              !.ref = 0]
    IN IF v = "preload" THEN [a1 EXCEPT !.pidx = -1] ELSE a1

\* playAudio: a new source starts at once; its onEnded closure captured the
\* index k and the list length n of the render the effect ran for.
playAudio(au, buf, k, n) ==
    LET free == {i \in DOMAIN au.sources : au.sources[i].st = "free"} IN
    IF free = {} THEN [au EXCEPT !.ok = FALSE]
    ELSE [au EXCEPT !.sources[Min(free)] = [st |-> "playing", k |-> k, n |-> n, buf |-> buf],
                    !.ref = Min(free),
                    !.over = Playing(au.sources)]

\* playStep of the playback effect.
playStep(v, au, idx, stps) ==
    IF idx + 1 \notin DOMAIN stps THEN au
    ELSE IF v = "preload" /\ au.pidx = idx /\ au.ref # 0 THEN au
    ELSE LET a1 == stopCurrentAudio(v, au)
             a2 == IF v = "preload" THEN [a1 EXCEPT !.pidx = idx] ELSE a1
         IN IF stps[idx + 1].audioBuffer # NoAudio
            THEN playAudio(a2, stps[idx + 1].audioBuffer, idx, Len(stps))
            ELSE [a2 EXCEPT !.tasks = Append(@, [kind |-> "fallback", k |-> idx, n |-> Len(stps)])]

\* The playback effect without its guard `if (!isPlaying || steps.length
\* === 0) { stopCurrentAudio(); return; }` stopping the audio.
PlaybackEffectNoStop(v, au, idx, playing, stps) ==
    IF ~playing \/ Len(stps) = 0 THEN au
    ELSE playStep(v, IF v = "preload" THEN au ELSE stopCurrentAudio(v, au), idx, stps)

\* The playback effect: the cleanup of the previous run (it stops the audio
\* in the two variants that return one), then the body.
PlaybackEffect(v, au, idx, playing, stps) ==
    LET c == IF v = "preload" THEN au ELSE stopCurrentAudio(v, au) IN
    IF ~playing \/ Len(stps) = 0 THEN stopCurrentAudio(v, c)
    ELSE playStep(v, c, idx, stps)

\* A render: the effect runs iff a dependency changed; steps is a dependency
\* only in the pre-loading variant, and every setSteps makes a new array.
Render(au, idx, playing, stps, stepsSet) ==
    IF idx # currentStepIndex \/ playing # isPlaying \/ (variant = "preload" /\ stepsSet)
    THEN PlaybackEffect(variant, au, idx, playing, stps)
    ELSE au

\* History: the steps (by index) whose audio was last written by a
\* narration request of the current submission. A submit empties it.
Attached(ev) ==
    IF ev.type = "submit" THEN {}
    ELSE IF ev.type \in {"voice0", "fetch"} /\ ~ev.ret.fault /\ ev.ret.value # <<>>
    THEN IF ev.gen = submits THEN attached \cup {ev.arg} ELSE attached \ {ev.arg}
    ELSE attached

Commit(au, ev) ==
    /\ au.ok
    /\ Len(au.tasks) <= MaxTasks
    /\ audioSourceRef' = au.ref
    /\ playingStepIndexRef' = au.pidx
    /\ sources' = au.sources
    /\ tasks' = au.tasks
    /\ startedOver' = au.over
    /\ lastEvent' = ev
    /\ attached' = Attached(ev)
    /\ UNCHANGED <<call, boardVars>>

\* The record of a task: its kind, its argument, the outcome the environment
\* chose for the call it continues, what that call returned, and isPlaying before it.
Event(type, arg, outcome, ret) ==
    [type |-> type, arg |-> arg, outcome |-> outcome, ret |-> ret, was |-> isPlaying]

\* The record of the continuation of a narration request, with the
\* submission that made the request.
VoiceEvent(type, arg, outcome, ret, gen) ==
    [type |-> type, arg |-> arg, outcome |-> outcome, ret |-> ret, was |-> isPlaying,
     gen |-> gen]

ControlsShown == variant = "apikey" => apiKey

\* ------------------------------------------------------------------ Init
Init ==
    /\ variant \in Variants
    /\ clientOk \in BOOLEAN
    /\ apiKey = (variant # "apikey")
    /\ steps = <<>>
    /\ currentStepIndex = 0
    /\ isPlaying = FALSE
    /\ isLoading = FALSE
    /\ audioSourceRef = 0
    /\ playingStepIndexRef = -1
    /\ sources = [i \in 1..MaxSources |-> NoSource]
    /\ tasks = <<>>
    /\ fetches = {}
    /\ pipeline = [phase |-> "idle", gen |-> <<>>]
    /\ submits = 0
    /\ startedOver = {}
    /\ lastEvent = Event("init", 0, "-", NoRet)
    /\ attached = {}
    /\ call = NoCall
    /\ BoardAtRest

\* --------------------------------------------------------- user actions
\* onPlayPause: setIsPlaying(!isPlaying); the button is disabled when there are no steps.
onPlayPause ==
    /\ ControlsShown
    /\ Len(steps) > 0
    /\ isPlaying' = ~isPlaying
    /\ Commit(Render(Audio, currentStepIndex, ~isPlaying, steps, FALSE),
              Event("playPause", 0, "-", NoRet))
    /\ UNCHANGED <<variant, clientOk, apiKey, steps, currentStepIndex, isLoading,
                   fetches, pipeline, submits>>

\* onNext's updater moving two steps.
NextIndexSkip(curr) == curr + 2

\* The updaters of onNext and onPrev.
NextIndex(curr) == curr + 1

PrevIndex(curr) == curr - 1

\* The tests of onNext and onPrev; PlayerControls disables each button under
\* the negation of the same test, so a click that fails it changes nothing.
NextGuard(curr, n) == curr < n - 1

PrevGuard(curr, n) == curr > 0

onNext ==
    /\ ControlsShown
    /\ LET go == NextGuard(currentStepIndex, Len(steps))
           idx == IF go THEN NextIndex(currentStepIndex) ELSE currentStepIndex
           playing == IF go THEN TRUE ELSE isPlaying
       IN /\ currentStepIndex' = idx
          /\ isPlaying' = playing
          /\ Commit(Render(Audio, idx, playing, steps, FALSE),
                    Event(IF go THEN "next" ELSE "nextIgnored", currentStepIndex, "-", NoRet))
    /\ UNCHANGED <<variant, clientOk, apiKey, steps, isLoading, fetches, pipeline, submits>>

onPrev ==
    /\ ControlsShown
    /\ LET go == PrevGuard(currentStepIndex, Len(steps))
           idx == IF go THEN PrevIndex(currentStepIndex) ELSE currentStepIndex
           playing == IF go THEN TRUE ELSE isPlaying
       IN /\ currentStepIndex' = idx
          /\ isPlaying' = playing
          /\ Commit(Render(Audio, idx, playing, steps, FALSE),
                    Event(IF go THEN "prev" ELSE "prevIgnored", currentStepIndex, "-", NoRet))
    /\ UNCHANGED <<variant, clientOk, apiKey, steps, isLoading, fetches, pipeline, submits>>

\* handleSeek setting the index after the one asked for.
SeekIndexOffByOne(stepIndex) == stepIndex + 1

\* The index handleSeek sets.
SeekIndex(stepIndex) == stepIndex

\* isPlaying after handleSeek: no variant calls setIsPlaying in it.
SeekPlayingReset(playing) == FALSE

SeekPlaying(playing) == playing

\* handleSeek, called by the range input (0..max(0, totalSteps-1), disabled
\* when there are no steps) when its value changes.
handleSeek(stepIndex) ==
    /\ ControlsShown
    /\ Len(steps) > 0
    /\ stepIndex \in 0..(Len(steps) - 1)
    /\ stepIndex # currentStepIndex
    /\ currentStepIndex' = SeekIndex(stepIndex)
    /\ isPlaying' = SeekPlaying(isPlaying)
    /\ Commit(Render(stopCurrentAudio(variant, Audio), SeekIndex(stepIndex),
                     SeekPlaying(isPlaying), steps, FALSE),
              Event("seek", stepIndex, "-", NoRet))
    /\ UNCHANGED <<variant, clientOk, apiKey, steps, isLoading, fetches, pipeline, submits>>

\* App's handleSubmit(text, imageBase64) up to its first await; the API-key
\* App returns at once without a key.
handleSubmit(text, image) ==
    /\ ControlsShown
    /\ submits < MaxSubmits
    /\ isLoading' = TRUE
    /\ isPlaying' = FALSE
    /\ steps' = <<>>
    /\ currentStepIndex' = 0
    /\ pipeline' = [phase |-> "generating", gen |-> <<>>]
    /\ submits' = submits + 1
    /\ Commit(Render(IF variant = "preload" THEN [Audio EXCEPT !.pidx = -1] ELSE Audio,
                     0, FALSE, <<>>, TRUE),
              Event("submit", submits + 1, IF image THEN "image" ELSE "-",
                    [fault |-> FALSE, value |-> text]))
    /\ UNCHANGED <<variant, clientOk, apiKey, fetches>>

\* A request for every step, the first included.
BackgroundFetchesFromStart(g, gen, from) ==
    {[gen |-> g, spoken |-> gen[i].spokenText, index |-> i - 1] : i \in 1..Len(gen)}

\* The background narration requests handleSubmit starts for a generated list.
BackgroundFetches(g, gen, from) ==
    {[gen |-> g, spoken |-> gen[i].spokenText, index |-> i - 1] : i \in from..Len(gen)}

\* handleSubmit's catch block.
SubmitCatchKeepsLoading(ev) ==
    /\ steps' = <<AppErrorStep>>
    /\ pipeline' = [phase |-> "idle", gen |-> <<>>]
    /\ Commit(Render(Audio, currentStepIndex, isPlaying, <<AppErrorStep>>, TRUE), ev)
    /\ UNCHANGED <<variant, clientOk, apiKey, currentStepIndex, isPlaying, isLoading,
                   fetches, submits>>

SubmitCatch(ev) ==
    /\ isLoading' = FALSE
    /\ steps' = <<AppErrorStep>>
    /\ pipeline' = [phase |-> "idle", gen |-> <<>>]
    /\ Commit(Render(Audio, currentStepIndex, isPlaying, <<AppErrorStep>>, TRUE), ev)
    /\ UNCHANGED <<variant, clientOk, apiKey, currentStepIndex, isPlaying, fetches, submits>>

\* setSteps(generatedSteps); setIsLoading(false); setIsPlaying(true), and the
\* background requests from index `from` on.
SubmitFinish(gen, from, ev) ==
    /\ steps' = gen
    /\ isLoading' = FALSE
    /\ isPlaying' = TRUE
    /\ fetches' = fetches \cup BackgroundFetches(submits, gen, from)
    /\ pipeline' = [phase |-> "idle", gen |-> <<>>]
    /\ Commit(Render(Audio, currentStepIndex, TRUE, gen, TRUE), ev)
    /\ UNCHANGED <<variant, clientOk, apiKey, currentStepIndex, submits>>

\* The continuation of `await generateExplanationSteps(...)`.
GenerationResolved(outcome, m) ==
    /\ pipeline.phase = "generating"
    /\ outcome # "ok" => m = 0
    /\ LET r == generateExplanationSteps(clientOk, outcome, submits, m)
           ev == Event("generated", m, outcome, r)
       IN IF r.fault THEN SubmitCatch(ev)
          ELSE IF variant = "preload" /\ Len(r.value) > 0
          THEN /\ pipeline' = [phase |-> "voice0", gen |-> r.value]
               /\ Commit(Audio, ev)
               /\ UNCHANGED <<variant, clientOk, apiKey, steps, currentStepIndex, isPlaying,
                              isLoading, fetches, submits>>
          ELSE SubmitFinish(r.value, IF variant = "preload" THEN 2 ELSE 1, ev)

\* generatedSteps[0].audioBuffer = buffer, before the list is handed to setSteps.
WithoutFirstAudio(gen, buffer) == gen

WithFirstAudio(gen, buffer) == [gen EXCEPT ![1].audioBuffer = buffer]

\* Pre-loading variant: the continuation of the awaited narration request
\* and decoding of step 0.
FirstVoiceResolved(vo, do) ==
    /\ pipeline.phase = "voice0"
    /\ vo # "data" => do = "decoded"
    /\ LET gen == pipeline.gen
           rv == generateTeacherVoice(clientOk, vo, gen[1].spokenText)
           rd == IF rv.fault \/ rv.value = <<>> THEN rv ELSE decodeAudioData(do, rv.value[1])
           ev == VoiceEvent("voice0", 0, IF do = "decodeThrows" THEN do ELSE vo, rd, submits)
       IN IF rd.fault THEN SubmitCatch(ev)
          ELSE SubmitFinish(IF rd.value = <<>> THEN gen
                            ELSE WithFirstAudio(gen, rd.value[1]), 2, ev)

\* A patch of the list as it was generated instead of the current one.
AttachAudioStale(prev, index, buffer) ==
    [i \in DOMAIN prev |-> IF i = index + 1 THEN [prev[i] EXCEPT !.audioBuffer = buffer]
                           ELSE [prev[i] EXCEPT !.audioBuffer = NoAudio]]

\* setSteps(prev => ...) of a background request: the step at the request's
\* index of whatever list is current gets the buffer.
AttachAudio(prev, index, buffer) ==
    IF index + 1 \in DOMAIN prev THEN [prev EXCEPT ![index + 1].audioBuffer = buffer] ELSE prev

\* The continuation of a background narration request and its decoding.
FetchResolved(f, vo, do) ==
    /\ f \in fetches
    /\ vo # "data" => do = "decoded"
    /\ fetches' = fetches \ {f}
    /\ LET rv == generateTeacherVoice(clientOk, vo, f.spoken)
           rd == IF rv.fault \/ rv.value = <<>> THEN rv ELSE decodeAudioData(do, rv.value[1])
           ev == VoiceEvent("fetch", f.index, IF do = "decodeThrows" THEN do ELSE vo, rd, f.gen)
       IN IF rd.fault \/ rd.value = <<>>
          THEN /\ Commit(Audio, ev)
               /\ UNCHANGED steps
          ELSE /\ steps' = AttachAudio(steps, f.index, rd.value[1])
               /\ Commit(Render(Audio, currentStepIndex, isPlaying,
                                AttachAudio(steps, f.index, rd.value[1]), TRUE), ev)
    /\ UNCHANGED <<variant, clientOk, apiKey, currentStepIndex, isPlaying, isLoading,
                   pipeline, submits>>

\* ------------------------------------------------- audio and timer tasks
\* The onEnded closure of playStep: isPlaying is the value of the render the
\* effect ran for, which is true whenever playStep runs.
onEnded(v, au, k, n) ==
    LET a1 == IF v = "preload" THEN [au EXCEPT !.pidx = -1] ELSE au IN
    [a1 EXCEPT !.tasks = Append(@, [kind |-> "post", k |-> k, n |-> n])]

\* A playing source reaches the end of its buffer.
AudioEnded(id) ==
    /\ sources[id].st = "playing"
    /\ LET s == sources[id]
           a1 == [Audio EXCEPT !.sources[id] =
                      IF audioSourceRef = id THEN [s EXCEPT !.st = "ended"] ELSE NoSource]
       IN Commit(onEnded(variant, a1, s.k, s.n), Event("audioEnded", s.k, "-", NoRet))
    /\ UNCHANGED <<variant, clientOk, apiKey, steps, currentStepIndex, isPlaying, isLoading,
                   fetches, pipeline, submits>>

Delay(kind) ==
    IF kind = "ended" THEN 0
    ELSE IF kind = "post" THEN PostAudioPauseMs
    ELSE IF variant = "preload" THEN FallbackPreloadMs ELSE FallbackMs

\* A queued task can run before an earlier one only if its delay is shorter.
CanFire(i) == \A j \in 1..(i - 1) : Delay(tasks[j].kind) > Delay(tasks[i].kind)

Remove(q, i) == [j \in 1..(Len(q) - 1) |-> IF j < i THEN q[j] ELSE q[j + 1]]

\* What a timer callback does: the captured index k and length n decide, the
\* captured isPlaying is true; the pre-loading variant's fallback timer also
\* compares playingStepIndexRef with k.
TimerDecision(v, pidx, t) ==
    IF t.kind = "fallback" /\ v = "preload" /\ pidx # t.k THEN "none"
    ELSE IF t.k < t.n - 1 THEN "advance"
    ELSE "stop"

\* The "ended" event of a stopped source is delivered.
StoppedSourceEnded(i) ==
    /\ i \in DOMAIN tasks
    /\ tasks[i].kind = "ended"
    /\ CanFire(i)
    /\ Commit(onEnded(variant, [Audio EXCEPT !.tasks = Remove(tasks, i)], tasks[i].k, tasks[i].n),
              Event("stoppedEnded", tasks[i].k, "-", NoRet))
    /\ UNCHANGED <<variant, clientOk, apiKey, steps, currentStepIndex, isPlaying, isLoading,
                   fetches, pipeline, submits>>

\* A setTimeout callback of playStep runs.
TimerFired(i) ==
    /\ i \in DOMAIN tasks
    /\ tasks[i].kind # "ended"
    /\ CanFire(i)
    /\ LET t == tasks[i]
           d == TimerDecision(variant, playingStepIndexRef, t)
           idx == IF d = "advance" THEN currentStepIndex + 1 ELSE currentStepIndex
           playing == IF d = "stop" THEN FALSE ELSE isPlaying
       IN /\ currentStepIndex' = idx
          /\ isPlaying' = playing
          /\ Commit(Render([Audio EXCEPT !.tasks = Remove(tasks, i)], idx, playing, steps, FALSE),
                    Event(IF d = "none" THEN "ignored" ELSE t.kind, t.k, d, NoRet))
    /\ UNCHANGED <<variant, clientOk, apiKey, steps, isLoading, fetches, pipeline, submits>>

\* ------------------------------------------------------------ API key
\* The logout button: setApiKey('').
clearApiKey ==
    /\ variant = "apikey"
    /\ apiKey
    /\ apiKey' = FALSE
    /\ Commit(Audio, Event("clearApiKey", 0, "-", NoRet))
    /\ UNCHANGED <<variant, clientOk, steps, currentStepIndex, isPlaying, isLoading,
                   fetches, pipeline, submits>>

\* ------------------------------------------------- services called alone
\* The two service functions with a result that is computed, not chosen by
\* the environment, are also run on their own, one call per behaviour.
\* The application before any event, for the behaviours that run one call.
AppAtRestAs(v) ==
    /\ variant = v
    /\ clientOk = TRUE
    /\ apiKey = TRUE
    /\ steps = <<>>
    /\ currentStepIndex = 0
    /\ isPlaying = FALSE
    /\ isLoading = FALSE
    /\ audioSourceRef = 0
    /\ playingStepIndexRef = -1
    /\ sources = [i \in 1..MaxSources |-> NoSource]
    /\ tasks = <<>>
    /\ fetches = {}
    /\ pipeline = [phase |-> "idle", gen |-> <<>>]
    /\ submits = 0
    /\ startedOver = {}
    /\ lastEvent = [type |-> "init", arg |-> 0, outcome |-> "-", ret |-> NoRet, was |-> FALSE]
    /\ attached = {}

AppAtRest == AppAtRestAs("preload")

\* ---- audioUtils.ts: decodeAudioData on the bytes atob() returns
Byte == 0..255

\* dataInt16[i] of new Int16Array(bytes.buffer): two bytes, low byte first
\* (typed arrays use the platform's byte order, little-endian on every
\* platform browsers run on), read as a two's-complement 16-bit integer.
dataInt16Unsigned(bytes, i) == bytes[2 * i + 1] + 256 * bytes[2 * i + 2]

dataInt16(bytes, i) ==
    LET u == bytes[2 * i + 1] + 256 * bytes[2 * i + 2]
    IN IF u >= 32768 THEN u - 65536 ELSE u

\* A float sample dataInt16[..] / 32768.0 as an exact fraction: the
\* quotient of a 16-bit integer by 2^15 is exact in a Float32Array.
Sample(n) == [num |-> n, den |-> PcmScale]

\* decodeAudioData(base64String, ctx, sampleRate, numChannels) after atob:
\* new Int16Array throws a RangeError on an odd byte length, createBuffer
\* throws on a length of zero frames and truncates a fractional frame
\* count; the loops then fill frame i of each channel from sample
\* i * numChannels + channel.
decodeAudioDataBytes(bytes, numChannels) ==
    IF Len(bytes) % 2 # 0 THEN [fault |-> TRUE, value |-> <<>>]
    ELSE LET length == Len(bytes) \div 2
             frameCount == length \div numChannels
         IN IF frameCount = 0 THEN [fault |-> TRUE, value |-> <<>>]
            ELSE [fault |-> FALSE,
                  value |-> [channel \in 1..numChannels |->
                               [i \in 1..frameCount |->
                                  Sample(dataInt16(bytes, (i - 1) * numChannels + (channel - 1)))]]]

\* The byte strings decoded: every two-byte string (each 16-bit sample
\* value once, one channel), and the strings of up to MaxPcmBytes bytes over
\* a few byte values, for one to MaxChannels channels.
EdgeBytes == {0, 64, 255}

DecodeCall(bytes, numChannels) ==
    [fn |-> "decodeAudioData", arg |-> [bytes |-> bytes, numChannels |-> numChannels],
     phase |-> "called", ret |-> NoRet]

InitDecode ==
    /\ AppAtRest
    /\ BoardAtRest
    /\ \/ \E lo \in Byte, hi \in Byte : call = DecodeCall(<<lo, hi>>, 1)
       \/ \E k \in 0..MaxPcmBytes, c \in 1..MaxChannels :
             \E b \in [1..k -> EdgeBytes] : call = DecodeCall(b, c)

DecodeReturns ==
    /\ call.fn = "decodeAudioData"
    /\ call.phase = "called"
    /\ call' = [call EXCEPT !.phase = "returned",
                            !.ret = decodeAudioDataBytes(call.arg.bytes, call.arg.numChannels)]
    /\ UNCHANGED <<appVars, boardVars>>

NextDecode == DecodeReturns

DecodeSpec == InitDecode /\ [][NextDecode]_vars

\* ---- geminiService.ts: cleanBlackboardContent on strings of tokens
\* A board text is a sequence of tokens, each standing for the characters
\* the regular expressions of cleanBlackboardContent tell apart:
\*   "$"  a dollar sign            "n"  a newline       "s"  a space
\*   "("  backslash + (            ")"  backslash + )
\*   "["  backslash + [            "]"  backslash + ]
\*   "A"  a label the prefix pattern removes ("Answer:", "Step 1:", ...)
\*   "x"  any other character
Token == {"$", "n", "s", "(", ")", "[", "]", "A", "x"}

Whitespace == {"n", "s"}

\* The least element of a non-empty set of positions, 0 for the empty set.
First(S) == IF S = {} THEN 0 ELSE CHOOSE q \in S : \A r \in S : q <= r

\* The last position of the match of latexRegex that starts at position p,
\* or 0: the alternatives are tried in order and each lazy quantifier
\* stops at the first closing delimiter its character class lets it reach.
MatchEnd(s, p) ==
    LET n == Len(s)
        block == IF s[p] = "$" /\ p < n /\ s[p + 1] = "$"
                 THEN First({q \in (p + 2)..(n - 1) : s[q] = "$" /\ s[q + 1] = "$"})
                 ELSE 0
        stopInline == IF s[p] = "$" THEN First({q \in (p + 1)..n : s[q] \in {"$", "n"}}) ELSE 0
        closeDisplay == IF s[p] = "[" THEN First({q \in (p + 1)..n : s[q] = "]"}) ELSE 0
        stopParen == IF s[p] = "(" THEN First({q \in (p + 1)..n : s[q] \in {")", "n"}}) ELSE 0
    IN IF block # 0 THEN block + 1
       ELSE IF stopInline # 0 /\ s[stopInline] = "$" THEN stopInline
       ELSE IF closeDisplay # 0 THEN closeDisplay
       ELSE IF stopParen # 0 /\ s[stopParen] = ")" THEN stopParen
       ELSE 0

\* raw.match(latexRegex) with the g flag, from position p on: the matches
\* from left to right, the search resuming after each match.
RECURSIVE MatchesFrom(_, _)
MatchesFrom(s, p) ==
    IF p > Len(s) THEN <<>>
    ELSE LET e == MatchEnd(s, p)
         IN IF e = 0 THEN MatchesFrom(s, p + 1)
            ELSE <<SubSeq(s, p, e)>> \o MatchesFrom(s, e + 1)

latexMatches(raw) == MatchesFrom(raw, 1)

\* String.prototype.trim.
RECURSIVE trim(_)
trim(s) ==
    IF s = <<>> THEN s
    ELSE IF Head(s) \in Whitespace THEN trim(Tail(s))
    ELSE IF s[Len(s)] \in Whitespace THEN trim(SubSeq(s, 1, Len(s) - 1))
    ELSE s

\* replace(/^(Step \d+:?|Answer:|Explanation:|...)/i, ''): one leading label.
removePrefix(s) == IF s # <<>> /\ Head(s) = "A" THEN Tail(s) ELSE s

\* Every match kept.
uniqueMatchesKeepAll(ms) == ms

\* filter((item, index, arr) => index === 0 || item !== arr[index - 1])
uniqueMatches(ms) ==
    LET keep == {i \in DOMAIN ms : i = 1 \/ ms[i] # ms[i - 1]}
        nth(S, j) == CHOOSE i \in S : Cardinality({h \in S : h < i}) = j - 1
    IN [j \in 1..Cardinality(keep) |-> ms[nth(keep, j)]]

\* join('\n\n')
RECURSIVE join(_)
join(ms) ==
    IF ms = <<>> THEN <<>>
    ELSE IF Len(ms) = 1 THEN ms[1]
    ELSE ms[1] \o <<"n", "n">> \o join(Tail(ms))

\* The template `$${trimmed}$`: the text between two dollar signs.
wrapNothing(trimmed) == trimmed

wrap(trimmed) == <<"$">> \o trimmed \o <<"$">>

cleanBlackboardContent(raw) ==
    IF raw = <<>> THEN <<>>
    ELSE IF latexMatches(raw) = <<>>
    THEN LET trimmed == trim(removePrefix(trim(raw)))
         IN IF trimmed = <<>> THEN <<>>
            ELSE IF \E i \in DOMAIN trimmed : trimmed[i] = "$" THEN trimmed
            ELSE wrap(trimmed)
    ELSE join(uniqueMatches(latexMatches(raw)))

\* The raw texts cleaned: every token string of up to MaxBoardLen tokens.
CleanCall(raw) ==
    [fn |-> "cleanBlackboardContent", arg |-> raw, phase |-> "called", ret |-> NoRet]

InitClean ==
    /\ AppAtRest
    /\ BoardAtRest
    /\ \E k \in 0..MaxBoardLen : \E raw \in [1..k -> Token] : call = CleanCall(raw)

\* The call returns; generateExplanationSteps stores the result as the
\* step's blackboardText.
CleanReturns ==
    /\ call.fn = "cleanBlackboardContent"
    /\ call.phase = "called"
    /\ call' = [call EXCEPT !.phase = "returned",
                            !.ret = [fault |-> FALSE,
                                     value |-> <<cleanBlackboardContent(call.arg)>>]]
    /\ UNCHANGED <<appVars, boardVars>>

\* The stored text is cleaned again.
CleanAgain ==
    /\ call.fn = "cleanBlackboardContent"
    /\ call.phase = "returned"
    /\ call' = [call EXCEPT !.phase = "cleanedAgain",
                            !.ret = [fault |-> FALSE,
                                     value |-> call.ret.value
                                               \o <<cleanBlackboardContent(call.ret.value[1])>>]]
    /\ UNCHANGED <<appVars, boardVars>>

NextClean == CleanReturns \/ CleanAgain

CleanSpec == InitClean /\ [][NextClean]_vars

\* ---- InputSection.tsx: the form in front of App's handleSubmit
\* The questions typed: nothing, white space only, and texts with a character.
InputTexts == {<<>>, <<"s">>, <<"n", "s">>, <<"x">>, <<"s", "x", "n">>}

\* A form that does not look at isLoading.
SubmitIgnoredNeverLoading(text, image, loading) == trim(text) = <<>> /\ ~image

\* (!text.trim() && !selectedImage) || isLoading
SubmitIgnored(text, image, loading) == (trim(text) = <<>> /\ ~image) \/ loading

\* InputSection's handleSubmit: the form's submit event. An ignored submit
\* sets no state.
InputSectionSubmit ==
    \E text \in InputTexts, image \in BOOLEAN :
        IF SubmitIgnored(text, image, isLoading)
        THEN /\ ControlsShown
             /\ Commit(Audio, Event("submitIgnored", submits, IF image THEN "image" ELSE "-",
                                     [fault |-> FALSE, value |-> text]))
             /\ UNCHANGED <<variant, clientOk, apiKey, steps, currentStepIndex, isPlaying,
                            isLoading, fetches, pipeline, submits>>
        ELSE handleSubmit(text, image)

\* ---- WelcomeScreen.tsx: the form that hands the key to App
\* The keys typed: nothing, white space only, and keys with a character.
KeyInputs == {<<>>, <<"s">>, <<"x">>, <<"s", "x">>}

\* !keyInput.trim()
KeyRejected(keyInput) == trim(keyInput) = <<>>

\* WelcomeScreen's handleSubmit: a blank input only sets the error message,
\* any other is trimmed and handed to setApiKey; the key is empty iff the
\* string handed over is.
setApiKey ==
    /\ variant = "apikey"
    /\ ~apiKey
    /\ \E keyInput \in KeyInputs :
          IF KeyRejected(keyInput)
          THEN /\ Commit(Audio, Event("keyRejected", 0, "-", [fault |-> FALSE, value |-> keyInput]))
               /\ UNCHANGED apiKey
          ELSE /\ apiKey' = (trim(keyInput) # <<>>)
               /\ Commit(Audio, Event("setApiKey", 0, "-",
                                       [fault |-> FALSE, value |-> trim(keyInput)]))
    /\ UNCHANGED <<variant, clientOk, steps, currentStepIndex, isPlaying, isLoading,
                   fetches, pipeline, submits>>

\* ---- Blackboard.tsx: the typewriter, run on its own
\* "object": components/Blackboard.tsx and part_001 (effect keyed on the step
\* object and the index); "text": part_000, first file (keyed on the text);
\* "seeking": part_000, second file (keyed on the text, isSeeking, isPlaying).
BoardVariants == {"object", "text", "seeking"}

Glyphs == {"a", "b"}

\* The board texts: every string of at most MaxTextLen glyphs.
Texts == UNION {[1..n -> Glyphs] : n \in 0..MaxTextLen}

NoStep == [obj |-> 0, blackboardText |-> <<>>]

\* steps[currentStepIndex], NoStep when it is undefined
currentStep(p) ==
    IF p.currentStepIndex < Len(p.steps) THEN p.steps[p.currentStepIndex + 1] ELSE NoStep

\* currentStep?.blackboardText || ''
currentText(p) == currentStep(p).blackboardText

\* The dependency list of the typewriter effect.
Deps(p) ==
    CASE boardVariant = "object"  -> <<currentStep(p).obj, p.currentStepIndex>>
      [] boardVariant = "text"    -> <<currentText(p)>>
      [] boardVariant = "seeking" -> <<currentText(p), p.isSeeking, p.isPlaying>>

\* The component's state and refs as one value.
Board ==
    [displayed |-> displayedCurrentText, ref |-> typingIntervalRef,
     anim |-> currentAnimatingTextRef, intervals |-> intervals,
     cleanup |-> effect.cleanup, started |-> FALSE]

\* window.clearInterval(id); an id that is not live is ignored
clearInterval(ivs, id) == {iv \in ivs : iv.id # id}

\* if (typingIntervalRef.current) window.clearInterval(typingIntervalRef.current)
ClearTyping(b) ==
    IF b.ref # 0 THEN [b EXCEPT !.intervals = clearInterval(@, b.ref)] ELSE b

\* An effect that returns no cleanup.
CleanupNothing(b) == b

\* The function the effect returned, run before the next run and on unmount.
Cleanup(b) == IF b.cleanup THEN ClearTyping(b) ELSE b

\* The id window.setInterval returns: one never returned before, so neither
\* a live one nor the one a ref still holds.
NewIntervalId(b) ==
    Min({i \in 1..(MaxIntervals + 1) : i # b.ref /\ \A iv \in b.intervals : iv.id # i})

\* typingIntervalRef.current = window.setInterval(..., ms), the closure
\* holding fullText and the index variable at 0
StartTyping(b, fullText) ==
    [b EXCEPT !.ref = NewIntervalId(b),
              !.intervals = @ \cup {[id |-> NewIntervalId(b), fullText |-> fullText,
                                     charIndex |-> 0]},
              !.cleanup = TRUE,
              !.started = TRUE]

\* Blackboard.tsx and part_001: the effect body
EffectObject(b, p) ==
    IF currentStep(p) = NoStep
    THEN [b EXCEPT !.displayed = <<>>, !.cleanup = FALSE]
    ELSE StartTyping(ClearTyping([b EXCEPT !.displayed = <<>>]), currentStep(p).blackboardText)

\* part_000, first file: the effect body
EffectText(b, p) ==
    IF currentText(p) = <<>>
    THEN [ClearTyping(b) EXCEPT !.displayed = <<>>, !.anim = NullText, !.cleanup = FALSE]
    ELSE IF b.anim = currentText(p)
    THEN [b EXCEPT !.cleanup = FALSE]
    ELSE StartTyping(ClearTyping([b EXCEPT !.anim = currentText(p), !.displayed = <<>>]),
                     currentText(p))

\* The second file's effect without its instant-render and no-re-animation paths.
EffectSeekingAsText(b, p) == EffectText(b, p)

\* part_000, second file: the effect body
EffectSeeking(b, p) ==
    LET b1 == [ClearTyping(b) EXCEPT !.ref = 0, !.cleanup = FALSE]
    IN IF currentText(p) = <<>>
       THEN [b1 EXCEPT !.displayed = <<>>, !.anim = NullText]
       ELSE IF p.isSeeking \/ ~p.isPlaying
       THEN [b1 EXCEPT !.displayed = currentText(p), !.anim = currentText(p)]
       ELSE IF b1.anim = currentText(p)
       THEN [b1 EXCEPT !.displayed = currentText(p)]
       ELSE StartTyping([b1 EXCEPT !.anim = currentText(p), !.displayed = <<>>],
                        currentText(p))

Effect(b, p) ==
    CASE boardVariant = "object"  -> EffectObject(b, p)
      [] boardVariant = "text"    -> EffectText(b, p)
      [] boardVariant = "seeking" -> EffectSeeking(b, p)

\* What the reader sees as the current step's text.
textToRender ==
    IF boardVariant = "seeking" /\ (props.isSeeking \/ ~props.isPlaying)
    THEN currentText(props)
    ELSE displayedCurrentText

\* The component's state after an event, with the record of the event.
CommitBoard(b, p, deps, ev) ==
    /\ Cardinality(b.intervals) <= MaxIntervals
    /\ props' = p
    /\ displayedCurrentText' = b.displayed
    /\ typingIntervalRef' = b.ref
    /\ currentAnimatingTextRef' = b.anim
    /\ intervals' = b.intervals
    /\ effect' = [deps |-> deps, cleanup |-> b.cleanup]
    /\ boardEvent' = ev
    /\ UNCHANGED <<boardVariant, appVars, call>>

\* The record of an event: its kind, the interval that fired, whether the
\* effect ran, whether it started an interval, and the intervals live before.
BoardEvent(type, id, ran, started) ==
    [type |-> type, id |-> id, ran |-> ran, started |-> started, was |-> Cardinality(intervals)]

\* A render of App with the props p: React runs the effect when a dependency
\* changed, after the cleanup of its previous run. While the Blackboard is not
\* rendered only App's state changes.
RenderBoard(type, p) ==
    IF mounted
    THEN LET ran == Deps(p) # effect.deps
             b == IF ran THEN Effect(Cleanup(Board), p) ELSE Board
         IN CommitBoard(b, p, Deps(p), BoardEvent(type, 0, ran, b.started))
    ELSE /\ props' = p
         /\ boardEvent' = BoardEvent(type, 0, FALSE, FALSE)
         /\ UNCHANGED <<boardVariant, displayedCurrentText, typingIntervalRef,
                        currentAnimatingTextRef, intervals, effect, appVars, call>>

\* The first render: fresh state and refs, and the effect runs.
BoardMount ==
    /\ ~mounted
    /\ mounted' = TRUE
    /\ LET b == Effect([displayed |-> <<>>, ref |-> 0, anim |-> NullText, intervals |-> {},
                        cleanup |-> FALSE, started |-> FALSE], props)
       IN CommitBoard(b, props, Deps(props), BoardEvent("mount", 0, TRUE, b.started))

\* App renders WelcomeScreen instead (the key was cleared): the effect's
\* cleanup runs and the component's state is gone.
BoardUnmount ==
    /\ mounted
    /\ variant = "apikey"
    /\ mounted' = FALSE
    /\ LET b == Cleanup(Board)
       IN CommitBoard([b EXCEPT !.displayed = <<>>, !.ref = 0, !.anim = NullText,
                                !.cleanup = FALSE],
                      props, <<>>, BoardEvent("unmount", 0, FALSE, FALSE))

\* The objects of the step list and the one the effect last saw.
ObjsInUse == {props.steps[i].obj : i \in DOMAIN props.steps}
                 \cup (IF boardVariant = "object" /\ effect.deps # <<>> THEN {effect.deps[1]} ELSE {})

\* The i-th new object: distinct from every object in use.
NewObj(i) ==
    LET free == (1..(2 * MaxSteps + 1)) \ ObjsInUse
        Nth[k \in 1..MaxSteps] ==
            IF k = 1 THEN Min(free) ELSE Min({o \in free : o > Nth[k - 1]})
    IN Nth[i]

\* handleSubmit, before its first await
BoardSubmit ==
    /\ RenderBoard("submit", [props EXCEPT !.steps = <<>>, !.currentStepIndex = 0,
                                           !.isPlaying = FALSE])
    /\ UNCHANGED mounted

\* handleSubmit, after generation: setSteps(generatedSteps) (or the one
\* error step) and setIsPlaying(true)
BoardGenerated ==
    /\ props.steps = <<>>
    /\ \E n \in 1..MaxSteps : \E texts \in [1..n -> Texts] :
          RenderBoard("generated",
                      [props EXCEPT !.steps = [i \in 1..n |->
                                                 [obj |-> NewObj(i), blackboardText |-> texts[i]]],
                                    !.isPlaying = TRUE])
    /\ UNCHANGED mounted

\* The array after a narration arrived for step i (0-based): the pre-loading
\* App puts a copy of the step in a copy of the array, the other two write
\* the buffer into the step they have.
AttachAudioObj(s, i) ==
    IF variant = "preload" THEN [s EXCEPT ![i + 1].obj = NewObj(1)] ELSE s

\* setSteps(prev => ...) of a background narration request; the pre-loading
\* App makes none for step 0
BoardAttachAudio ==
    /\ \E i \in (IF variant = "preload" THEN 1 ELSE 0)..(MaxSteps - 1) :
          RenderBoard("attach",
                      [props EXCEPT !.steps = IF i < Len(props.steps)
                                              THEN AttachAudioObj(props.steps, i)
                                              ELSE props.steps])
    /\ UNCHANGED mounted

\* Next, Prev, the scrubber, play/pause, an auto-advance or the end of
\* playback: a new index or a new Playing flag (and isSeeking, for the
\* Blackboard that takes it).
BoardNavigate ==
    /\ \E k \in 0..MaxSteps, playing \in BOOLEAN, seeking \in BOOLEAN :
          /\ seeking => boardVariant = "seeking"
          /\ <<k, playing, seeking>> # <<props.currentStepIndex, props.isPlaying, props.isSeeking>>
          /\ RenderBoard("navigate", [props EXCEPT !.currentStepIndex = k,
                                                   !.isPlaying = playing,
                                                   !.isSeeking = seeking])
    /\ UNCHANGED mounted

\* The whole text at once.
sliceWhole(text, n) == text

\* currentText.slice(0, n)
slice(text, n) == SubSeq(text, 1, Min({n, Len(text)}))

\* Blackboard.tsx and part_001: one run of the interval's callback
TickAppend(b, iv) ==
    IF iv.charIndex >= Len(iv.fullText)
    THEN ClearTyping(b)
    ELSE [b EXCEPT !.displayed = Append(@, iv.fullText[iv.charIndex + 1]),
                   !.intervals = (@ \ {iv}) \cup {[iv EXCEPT !.charIndex = @ + 1]}]

\* part_000: one run of the interval's callback
TickSlice(b, iv) ==
    LET b1 == [b EXCEPT !.displayed = slice(iv.fullText, iv.charIndex + 1),
                        !.intervals = (@ \ {iv}) \cup {[iv EXCEPT !.charIndex = @ + 1]}]
    IN IF iv.charIndex + 1 >= Len(iv.fullText) THEN ClearTyping(b1) ELSE b1

\* An interval that was not cleared fires.
BoardTick ==
    /\ mounted
    /\ \E iv \in intervals :
          /\ iv.charIndex <= Len(iv.fullText)
          /\ CommitBoard(IF boardVariant = "object" THEN TickAppend(Board, iv)
                                                   ELSE TickSlice(Board, iv),
                         props, effect.deps, BoardEvent("tick", iv.id, FALSE, FALSE))
    /\ UNCHANGED mounted

InitBoard ==
    /\ \E v \in Variants : AppAtRestAs(v)
    /\ call = NoCall
    /\ boardVariant \in BoardVariants
    /\ mounted = FALSE
    /\ props = InitialProps
    /\ displayedCurrentText = <<>>
    /\ typingIntervalRef = 0
    /\ currentAnimatingTextRef = NullText
    /\ intervals = {}
    /\ effect = NoEffect
    /\ boardEvent = BoardEvent("init", 0, FALSE, FALSE)

NextBoard ==
    \/ BoardMount
    \/ BoardUnmount
    \/ BoardSubmit
    \/ BoardGenerated
    \/ BoardAttachAudio
    \/ BoardNavigate
    \/ BoardTick

BlackboardSpec == InitBoard /\ [][NextBoard]_vars

\* ================================================================ claims
InRange == currentStepIndex \in 0..(Len(steps) - 1)

\* C1: at most one audio source is playing in every reachable state, and
\* whenever playAudio starts a source no other source is still playing at
\* that moment (the previous one was stopped first, within the same task).
C1_OneAudioSource ==
    /\ Cardinality(Playing(sources)) <= 1
    /\ startedOver = {}

\* C1 witness: a seek has just stopped the source of one step (its "ended"
\* event is queued) and started the source of another step.
C1_Witness ==
    /\ lastEvent.type = "seek"
    /\ audioSourceRef # 0
    /\ sources[audioSourceRef].st = "playing"
    /\ \E i \in DOMAIN tasks :
           tasks[i].kind = "ended" /\ tasks[i].k # sources[audioSourceRef].k

\* C2: whenever the step list is non-empty the index is in [0, length-1].
C2_IndexInBounds == Len(steps) > 0 => InRange

\* C3: a timer-driven auto-advance taken while playing at an in-range index
\* i of a list of length n yields index min(i+1, n-1), stops playing exactly
\* at the last step, and keeps playing otherwise.
C3_AutoAdvance ==
    [][(/\ lastEvent'.type \in {"post", "fallback"}
        /\ isPlaying
        /\ Len(steps) > 0
        /\ InRange)
       => /\ currentStepIndex' = Min({currentStepIndex + 1, Len(steps) - 1})
          /\ isPlaying' = (currentStepIndex < Len(steps) - 1)]_vars

\* C4: a seek to step j issued while the audio of step i is playing stops
\* that audio within the seek's own task (its "ended" event is queued by
\* this task), sets the index to j, and any source playing afterwards is
\* one of step j that was started with no other source playing.
C4_SeekStopsAudio ==
    [][(lastEvent'.type = "seek" /\ Playing(sources) # {})
       => /\ currentStepIndex' = lastEvent'.arg
          /\ \A s \in Playing(sources) :
                \E i \in DOMAIN tasks' :
                    /\ i > Len(tasks)
                    /\ tasks'[i].kind = "ended"
                    /\ tasks'[i].k = sources[s].k
          /\ \A s \in Playing(sources') : sources'[s].k = lastEvent'.arg
          /\ startedOver' = {}]_vars

\* C4 witness: a seek to index 0 while a source of another step was playing;
\* that source's "ended" event is queued and step 0's audio plays.
C4_Witness ==
    /\ lastEvent.type = "seek"
    /\ lastEvent.arg = 0
    /\ currentStepIndex = 0
    /\ \E i \in DOMAIN tasks : tasks[i].kind = "ended" /\ tasks[i].k # 0
    /\ \E s \in Playing(sources) : sources[s].k = 0

\* C5: Next moves the index from i to i+1 and Prev from i to i-1, the
\* result is within the bounds the handler checked, and isPlaying is true
\* afterwards whatever it was before.
C5_NextPrev ==
    [][/\ lastEvent'.type = "next"
          => /\ currentStepIndex' = currentStepIndex + 1
             /\ currentStepIndex' <= Len(steps) - 1
             /\ isPlaying'
       /\ lastEvent'.type = "prev"
          => /\ currentStepIndex' = currentStepIndex - 1
             /\ currentStepIndex' >= 0
             /\ isPlaying']_vars

\* C5 witness: Next was pressed while paused and the player is now playing
\* the following step.
C5_Witness ==
    /\ lastEvent.type = "next"
    /\ ~lastEvent.was
    /\ isPlaying
    /\ currentStepIndex = lastEvent.arg + 1

\* C6: after a generation call returned an empty list the sequencer is
\* idle: isPlaying is false, the list is empty and no source is playing.
C6_EmptyStaysIdle ==
    (/\ lastEvent.type = "generated"
     /\ ~lastEvent.ret.fault
     /\ lastEvent.ret.value = <<>>)
    => /\ ~isPlaying
       /\ steps = <<>>
       /\ Playing(sources) = {}

\* C7: generateExplanationSteps never propagates a fault, and on every
\* failure (client construction, request, parse, schema) it returns exactly
\* the one synthetic error step.
C7_GenerationNeverFaults ==
    lastEvent.type = "generated"
    => /\ ~lastEvent.ret.fault
       /\ (~clientOk \/ lastEvent.outcome # "ok") => lastEvent.ret.value = <<ServiceErrorStep>>

\* C8: a narration request that fails (or carries no audio) makes
\* generateTeacherVoice return undefined without a fault, and the step list
\* is as it was (for step 0 of the pre-loading variant: as generated).
C8_VoiceNeverThrows ==
    [][(/\ lastEvent'.type \in {"voice0", "fetch"}
        /\ lastEvent'.outcome \in {"noData", "requestFails"})
       => /\ ~lastEvent'.ret.fault
          /\ lastEvent'.ret.value = <<>>
          /\ lastEvent'.type = "fetch" => steps' = steps
          /\ lastEvent'.type = "voice0" => steps' = pipeline.gen]_vars

\* C8 witness: the narration request of step 0 failed in the pre-loading
\* variant and the generated list was installed without audio on step 0.
C8_Witness ==
    /\ lastEvent.type = "voice0"
    /\ lastEvent.outcome = "requestFails"
    /\ Len(steps) > 0
    /\ steps[1] = GenStep(submits, 0)

\* C9: a narration or decoding failure for a step leaves the submission's
\* list in place; it is never replaced by an error step.
C9_AudioFailureKeepsSteps ==
    [][(/\ lastEvent'.type \in {"voice0", "fetch"}
        /\ lastEvent'.outcome # "data")
       => /\ lastEvent'.type = "fetch" => steps' = steps
          /\ lastEvent'.type = "voice0" => steps' = pipeline.gen]_vars

\* C10: the sequencer never stalls: whenever it is playing a non-empty list
\* something is pending that will move it on (a playing source whose end is
\* awaited, a queued "ended" event or an armed timer). In a state where
\* nothing is pending no task other than a user action or an audio-fetch
\* completion can run, so the index never advances and isPlaying stays true.
C10_NeverStalls ==
    (isPlaying /\ Len(steps) > 0) => (tasks # <<>> \/ Playing(sources) # {})

\* C11: when a background request attaches the audio of the current step
\* while isPlaying is true and that step had no audio yet, the same task
\* starts the source of that step (the play decision is taken again).
C11_LateAudioPlays ==
    [][(/\ lastEvent'.type = "fetch"
        /\ lastEvent'.outcome = "data"
        /\ isPlaying
        /\ InRange
        /\ lastEvent'.arg = currentStepIndex
        /\ steps[currentStepIndex + 1].audioBuffer = NoAudio)
       => /\ audioSourceRef' # 0
          /\ sources'[audioSourceRef'].st = "playing"
          /\ sources'[audioSourceRef'].k = currentStepIndex
          /\ sources'[audioSourceRef'].buf = steps'[currentStepIndex + 1].audioBuffer]_vars

\* The two bytes a 16-bit signed sample n is stored as, low byte first.
PcmBytesOf(n) ==
    LET u == IF n < 0 THEN n + 65536 ELSE n IN <<u % 256, u \div 256>>

\* C12: a decoding of a byte string that holds whole frames (a non-zero
\* multiple of 2 * numChannels bytes) returns numChannels channels of
\* byteLength / 2 / numChannels frames each; frame i of channel c is
\* n / 32768 where n in [-32768, 32767] is the 16-bit signed little-endian
\* sample number i * numChannels + c of the input (storing n again gives
\* the input's two bytes), and the sample 16384 is decoded to one half.
C12_DecodePcm ==
    (/\ call.fn = "decodeAudioData"
     /\ call.phase = "returned"
     /\ Len(call.arg.bytes) > 0
     /\ Len(call.arg.bytes) % (2 * call.arg.numChannels) = 0)
    => LET b == call.arg.bytes
           c == call.arg.numChannels
           r == call.ret
       IN /\ ~r.fault
          /\ DOMAIN r.value = 1..c
          /\ \A ch \in 1..c :
                /\ Len(r.value[ch]) * 2 * c = Len(b)
                /\ \A i \in 1..Len(r.value[ch]) :
                      LET s == r.value[ch][i]
                          j == (i - 1) * c + (ch - 1)
                      IN /\ s.den = 32768
                         /\ s.num \in -32768..32767
                         /\ PcmBytesOf(s.num) = <<b[2 * j + 1], b[2 * j + 2]>>
                         /\ (s.num = 16384 => 2 * s.num = s.den)

\* C12 witness: a two-channel decoding has returned two frames per
\* channel, with the sample 16384 and a negative sample among them.
C12_Witness ==
    /\ call.fn = "decodeAudioData"
    /\ call.phase = "returned"
    /\ call.arg.numChannels = 2
    /\ ~call.ret.fault
    /\ Len(call.ret.value[1]) = 2
    /\ call.ret.value[1][1].num = 16384
    /\ call.ret.value[2][2].num < 0

\* C13: cleaning the result of cleanBlackboardContent again returns it
\* unchanged, for every raw board text.
C13_CleanIdempotent ==
    (call.fn = "cleanBlackboardContent" /\ call.phase = "cleanedAgain")
    => call.ret.value[2] = call.ret.value[1]

\* C13 (amended): cleaning the result again returns it unchanged for every
\* raw text that contains a math-delimited segment and for every raw text
\* without a dollar sign; a text that is neither falls to the "return as
\* is" branch, whose result may still carry a label the next pass removes.
C13_CleanIdempotentOnMath ==
    (/\ call.fn = "cleanBlackboardContent"
     /\ call.phase = "cleanedAgain"
     /\ \/ latexMatches(call.arg) # <<>>
        \/ \A i \in DOMAIN call.arg : call.arg[i] # "$")
    => call.ret.value[2] = call.ret.value[1]

\* C13 witness: a raw text with two equal consecutive segments was cleaned
\* to the single segment, and the second cleaning has run on that result.
C13_Witness ==
    /\ call.fn = "cleanBlackboardContent"
    /\ call.phase = "cleanedAgain"
    /\ Len(latexMatches(call.arg)) = 2
    /\ call.ret.value[1] = latexMatches(call.arg)[1]
    /\ call.ret.value[1] # call.arg

\* C14: in the pre-loading variant the continuation of the generation call
\* leaves isPlaying and the (empty) step list alone when the list is not
\* empty, and the continuation of a successful narration request and
\* decoding of step 0 sets isPlaying with step 0 carrying its own audio;
\* if the index is 0 the source of step 0 plays that audio, and that task
\* arms no fallback timer for step 0.
C14_FirstAudioBeforePlaying ==
    [][variant = "preload" =>
       /\ (lastEvent'.type = "generated" /\ pipeline'.phase = "voice0")
          => (isPlaying' = isPlaying /\ isLoading' /\ steps' = steps)
       /\ (lastEvent'.type = "voice0" /\ lastEvent'.outcome = "data")
          => /\ isPlaying'
             /\ ~isLoading'
             /\ steps'[1].audioBuffer = AudioOf(steps'[1].spokenText)
             /\ \A i \in DOMAIN tasks' :
                    (tasks'[i].kind = "fallback" /\ tasks'[i].k = 0) => i <= Len(tasks)
             /\ currentStepIndex' = 0
                => /\ audioSourceRef' # 0
                   /\ sources'[audioSourceRef'].st = "playing"
                   /\ sources'[audioSourceRef'].k = 0
                   /\ sources'[audioSourceRef'].buf = steps'[1].audioBuffer]_vars

\* C14 witness: the narration of step 0 has just been obtained and decoded
\* in the pre-loading variant, and step 0 is playing its audio.
C14_Witness ==
    /\ variant = "preload"
    /\ lastEvent.type = "voice0"
    /\ lastEvent.outcome = "data"
    /\ isPlaying
    /\ currentStepIndex = 0
    /\ Len(steps) = MaxSteps
    /\ audioSourceRef # 0
    /\ sources[audioSourceRef].st = "playing"
    /\ sources[audioSourceRef].buf = AudioOf(steps[1].spokenText)

\* C15: a submit yields isLoading true, isPlaying false, no steps and index
\* 0; isLoading is true exactly while handleSubmit is suspended at an
\* await, so every path on which it finishes (steps, an empty list, a
\* fault) ends with isLoading false; and when the generation call throws,
\* isPlaying is still false and the step list is the single error step.
C15_SubmitLoading ==
    /\ isLoading <=> pipeline.phase # "idle"
    /\ lastEvent.type = "submit"
       => (isLoading /\ ~isPlaying /\ steps = <<>> /\ currentStepIndex = 0)
    /\ (lastEvent.type \in {"generated", "voice0"} /\ pipeline.phase = "idle") => ~isLoading
    /\ (lastEvent.type = "generated" /\ lastEvent.ret.fault)
       => (~isLoading /\ ~isPlaying /\ steps = <<AppErrorStep>>)

\* C15 witness: the generation call of a second submission, made after the
\* error step of the first one was played, has thrown.
C15_Witness ==
    /\ lastEvent.type = "generated"
    /\ lastEvent.ret.fault
    /\ submits = 2
    /\ tasks # <<>>
    /\ ~isLoading

\* The steps of a list as they were generated: all fields but the audio.
AsGenerated(stps) == [i \in DOMAIN stps |-> [stps[i] EXCEPT !.audioBuffer = NoAudio]]

\* C16: whatever the order in which the narration requests of the current
\* submission complete, every step whose request and decoding succeeded
\* carries the audio of its own narration text, and the list is otherwise
\* the generated one (same length and order, same title, board text and
\* narration text).
C16_NoLostUpdate ==
    (attached # {} /\ pipeline.phase = "idle")
    => /\ \A i \in attached :
             /\ i + 1 \in DOMAIN steps
             /\ steps[i + 1].audioBuffer = AudioOf(steps[i + 1].spokenText)
       /\ \/ AsGenerated(steps) = <<ServiceErrorStep>>
          \/ /\ Len(steps) \in 1..MaxSteps
             /\ AsGenerated(steps) = [i \in 1..Len(steps) |-> GenStep(submits, i - 1)]

\* C16 witness: the requests of a two-step list completed in reverse
\* order, step 1 before step 0, and both succeeded.
C16_Witness ==
    /\ lastEvent.type = "fetch"
    /\ lastEvent.arg = 0
    /\ lastEvent.outcome = "data"
    /\ attached = {0, 1}
    /\ Len(steps) = 2

\* C17: every audio buffer on a step of the current list was made from the
\* narration text of that same step (never from a step of an earlier
\* submission).
C17_AudioOfOwnStep ==
    \A i \in DOMAIN steps :
        steps[i].audioBuffer # NoAudio => steps[i].audioBuffer = AudioOf(steps[i].spokenText)

\* C18: an event that is not part of a submission (the submit itself and
\* the continuations that hand over its list) keeps the length and order
\* of the step list and every step's title, board text and narration text;
\* the continuation of a narration request changes at most the audio of the
\* step at its index, and that step is the one the request was made for
\* (the new audio is the audio of that step's narration text).
C18_StepsFrame ==
    [][lastEvent'.type \notin {"submit", "generated", "voice0"}
       => /\ AsGenerated(steps') = AsGenerated(steps)
          /\ \A i \in DOMAIN steps :
                steps'[i] # steps[i]
                => /\ lastEvent'.type = "fetch"
                   /\ i = lastEvent'.arg + 1
                   /\ steps'[i].audioBuffer = AudioOf(steps[i].spokenText)]_vars

\* C19: in every variant a seek leaves isPlaying, the step list and
\* isLoading unchanged and sets the index to its target; a seek while
\* playing continues at the target step (its audio is playing, or its
\* fallback timer was armed by the seek if it has no audio yet), and after
\* a seek while paused no source is playing and no timer was armed.
C19_SeekFrame ==
    [][lastEvent'.type = "seek"
       => LET j == lastEvent'.arg
              armed == {i \in DOMAIN tasks' : i > Len(tasks) /\ tasks'[i].kind # "ended"}
          IN /\ isPlaying' = isPlaying
             /\ steps' = steps
             /\ isLoading' = isLoading
             /\ currentStepIndex' = j
             /\ isPlaying
                => IF steps[j + 1].audioBuffer # NoAudio
                   THEN /\ audioSourceRef' # 0
                        /\ sources'[audioSourceRef'].st = "playing"
                        /\ sources'[audioSourceRef'].k = j
                        /\ sources'[audioSourceRef'].buf = steps[j + 1].audioBuffer
                   ELSE /\ Playing(sources') = {}
                        /\ \E i \in armed : tasks'[i].kind = "fallback" /\ tasks'[i].k = j
             /\ ~isPlaying => (Playing(sources') = {} /\ armed = {})]_vars

\* C19 witness: a seek made while playing has started the audio of its
\* target step in a list of MaxSteps steps.
C19_Witness ==
    /\ lastEvent.type = "seek"
    /\ lastEvent.was
    /\ isPlaying
    /\ Len(steps) = MaxSteps
    /\ audioSourceRef # 0
    /\ sources[audioSourceRef].st = "playing"
    /\ sources[audioSourceRef].k = currentStepIndex

\* C20: in every state where isPlaying is false or the step list is empty
\* no audio source is playing (a pause, the stop at the last step and a
\* submit stop the playing source within their own task).
C20_IdleIsSilent ==
    (~isPlaying \/ Len(steps) = 0) => Playing(sources) = {}

\* C20 witness: a pause pressed while a source was playing has stopped it
\* (its "ended" event is queued) and nothing is playing.
C20_Witness ==
    /\ lastEvent.type = "playPause"
    /\ lastEvent.was
    /\ ~isPlaying
    /\ Len(steps) > 0
    /\ \E i \in DOMAIN tasks : tasks[i].kind = "ended"
    /\ Playing(sources) = {}


\* C21: a timer callback (the post-audio timer or the fallback timer) armed
\* while the index was k that runs when the index is no longer k, or when
\* isPlaying is false, changes neither the index nor isPlaying.
C21_StaleTimerIgnored ==
    [][(/\ lastEvent'.type \in {"post", "fallback", "ignored"}
        /\ (currentStepIndex # lastEvent'.arg \/ ~isPlaying))
       => (currentStepIndex' = currentStepIndex /\ isPlaying' = isPlaying)]_vars


\* C22: while isPlaying is false, a task that is not a user action (Next,
\* Prev, seek, play/pause, a submit and its continuations) changes neither
\* the index nor isPlaying.
C22_PausedStaysPut ==
    [][(/\ ~isPlaying
        /\ lastEvent'.type \notin {"next", "prev", "seek", "playPause", "submit",
                                   "generated", "voice0"})
       => (currentStepIndex' = currentStepIndex /\ isPlaying' = isPlaying)]_vars


\* C23: while a submission is loading (from its reset of the index to 0
\* until its steps are set) the index is 0, and when the submission sets
\* its steps and isPlaying the index is 0.
C23_SubmissionStartsAtZero ==
    /\ isLoading => currentStepIndex = 0
    /\ (lastEvent.type \in {"generated", "voice0"} /\ pipeline.phase = "idle")
       => currentStepIndex = 0


\* C24: the post-audio timer is armed only by the natural end of the
\* source that is playing the current step: the "ended" event of a source
\* that was stopped (by a seek, a pause, Next/Prev, a re-run of the effect
\* or a submit) arms no timer, and no index change follows from it.
C24_AdvanceOnlyOnNaturalEnd ==
    [][lastEvent'.type = "stoppedEnded"
       => \A i \in DOMAIN tasks' : tasks'[i].kind # "post"
             \/ \E j \in DOMAIN tasks : tasks[j] = tasks'[i] /\ tasks[j].kind = "post"]_vars


\* C25: while the source started for the current step is still playing, a
\* fallback timer that was armed for this step (when it had no audio yet)
\* leaves the index and isPlaying alone.
C25_FallbackSparesLateAudio ==
    [][(/\ lastEvent'.type \in {"fallback", "ignored"}
        /\ lastEvent'.arg = currentStepIndex
        /\ isPlaying
        /\ audioSourceRef # 0
        /\ sources[audioSourceRef].st = "playing"
        /\ sources[audioSourceRef].k = currentStepIndex)
       => (currentStepIndex' = currentStepIndex /\ isPlaying' = isPlaying)]_vars


\* ---- uninterrupted autoplay: one submission and no other user action
SubmitOnce == submits = 0 /\ InputSectionSubmit

NextAutoplay ==
    \/ setApiKey
    \/ SubmitOnce
    \/ \E o \in GenOutcomes, m \in 0..MaxSteps : GenerationResolved(o, m)
    \/ \E vo \in VoiceOutcomes, do \in DecodeOutcomes : FirstVoiceResolved(vo, do)
    \/ \E f \in fetches, vo \in VoiceOutcomes, do \in DecodeOutcomes : FetchResolved(f, vo, do)
    \/ \E id \in 1..MaxSources : AudioEnded(id)
    \/ \E i \in 1..MaxTasks : StoppedSourceEnded(i)
    \/ \E i \in 1..MaxTasks : TimerFired(i)

AutoplaySpec == Init /\ [][NextAutoplay]_vars

\* C26: in an autoplay without user action the index only moves from i to
\* i + 1 and stays within the list, no task starts the audio of a step
\* whose source is already the referenced one (started before), and when
\* nothing is left to run playback has ended at the last step.
C26_AutoplayInOrder ==
    [][/\ currentStepIndex' \in {currentStepIndex, currentStepIndex + 1}
       /\ Len(steps') > 0 => currentStepIndex' < Len(steps')
       /\ \A id \in Playing(sources') \ Playing(sources) :
             ~(audioSourceRef # 0 /\ sources[audioSourceRef].k = sources'[id].k
               /\ sources[audioSourceRef].n = sources'[id].n)]_vars


\* C27: a click on Next at the last step or with no steps, and a click on
\* Prev at step 0 or with no steps, leaves the index, isPlaying, the step
\* list, the sources and the armed timers as they were.
C27_NoOpNextPrev ==
    [][(\/ /\ lastEvent'.type \in {"next", "nextIgnored"}
           /\ (Len(steps) = 0 \/ currentStepIndex = Len(steps) - 1)
        \/ /\ lastEvent'.type \in {"prev", "prevIgnored"}
           /\ (Len(steps) = 0 \/ currentStepIndex = 0))
       => UNCHANGED <<currentStepIndex, isPlaying, steps, sources, tasks, audioSourceRef>>]_vars


\* C28: a render with the same index in which the current step's board text
\* is the same as in the render before it does not put the displayed text
\* back to the empty string: the reveal starts again only when that text changed.
C28_RestartOnlyOnTextChange ==
    [][(/\ mounted /\ mounted'
        /\ props'.currentStepIndex = props.currentStepIndex
        /\ currentText(props') = currentText(props)
        /\ textToRender # <<>>)
       => textToRender' # <<>>]_vars


IsPrefix(s, t) == Len(s) <= Len(t) /\ s = SubSeq(t, 1, Len(s))

\* The typewriter with an interval that fires as long as it is not cleared.
BlackboardFairSpec == BlackboardSpec /\ WF_vars(BoardTick)

\* C29 as stated: every tick of the interval makes the displayed text one
\* character longer.
C29_EveryTickAddsOne ==
    [][boardEvent'.type = "tick"
       => Len(displayedCurrentText') = Len(displayedCurrentText) + 1]_vars

\* C29: while an interval is live the displayed text is a prefix of the
\* current step's board text; a tick that finds the text incomplete adds
\* exactly its next character, a tick that finds it complete changes nothing
\* and clears the interval; when no interval is live the whole text is
\* displayed; and unless the props keep changing the interval is cleared for good.
C29_RevealByPrefix ==
    /\ [](mounted /\ intervals # {} => IsPrefix(textToRender, currentText(props)))
    /\ [](mounted /\ intervals = {} => textToRender = currentText(props))
    /\ [][boardEvent'.type = "tick"
          => IF displayedCurrentText # currentText(props)
             THEN /\ displayedCurrentText'
                       = SubSeq(currentText(props), 1, Len(displayedCurrentText) + 1)
                  /\ (boardVariant # "object" /\ displayedCurrentText' = currentText(props))
                        => intervals' = {}
             ELSE displayedCurrentText' = displayedCurrentText /\ intervals' = {}]_vars
    /\ ([]<>(boardEvent.type # "tick") \/ <>[](intervals = {}))

\* The last character of a two-character text has just been revealed.
C29_Witness ==
    /\ boardEvent.type = "tick"
    /\ Len(displayedCurrentText) = 2
    /\ displayedCurrentText = currentText(props)


\* C30: at most one interval is live; a live interval is the one the latest
\* run of the effect started, for the text of the current step, in a mounted
\* component; so only that interval ever ticks, whichever path the effect took.
C30_OneLiveInterval ==
    /\ [](Cardinality(intervals) <= 1)
    /\ [](\A iv \in intervals :
             /\ mounted
             /\ iv.id = typingIntervalRef
             /\ iv.fullText = currentText(props))
    /\ [][boardEvent'.type = "tick" => boardEvent'.id = typingIntervalRef]_vars

\* The effect ran again while an interval was live and returned early.
C30_Witness ==
    /\ mounted
    /\ boardEvent.ran
    /\ ~boardEvent.started
    /\ boardEvent.was = 1
    /\ intervals = {}


\* C31: in the seeking-aware Blackboard, while isSeeking is true or isPlaying
\* is false the rendered text of the current step is its full board text, and
\* a render that resumes playback on the same text shows the full text and
\* starts no interval.
C31_InstantWhenPausedOrSeeking ==
    /\ []((mounted /\ boardVariant = "seeking" /\ (props.isSeeking \/ ~props.isPlaying))
             => (textToRender = currentText(props) /\ intervals = {}))
    /\ [][(/\ mounted /\ mounted' /\ boardVariant = "seeking"
           /\ (props.isSeeking \/ ~props.isPlaying)
           /\ props'.isPlaying /\ ~props'.isSeeking
           /\ currentText(props') = currentText(props))
          => (textToRender' = currentText(props) /\ intervals' = {})]_vars

\* Playback was resumed on a non-empty text: the effect ran and started no interval.
C31_Witness ==
    /\ mounted
    /\ boardVariant = "seeking"
    /\ boardEvent.type = "navigate"
    /\ boardEvent.ran
    /\ ~boardEvent.started
    /\ props.isPlaying
    /\ ~props.isSeeking
    /\ Len(currentText(props)) = MaxTextLen


\* A sequence with every run of equal consecutive elements reduced to one.
RECURSIVE Collapse(_)
Collapse(ms) ==
    IF Len(ms) <= 1 THEN ms
    ELSE IF ms[1] = ms[2] THEN Collapse(Tail(ms))
    ELSE <<ms[1]>> \o Collapse(Tail(ms))

\* The raw text trimmed, without a leading label, trimmed again.
Stripped(raw) == trim(removePrefix(trim(raw)))

HasDollar(s) == \E i \in DOMAIN s : s[i] = "$"

C33_OneGenerationInFlight ==
    /\ [][lastEvent'.type = "submitIgnored"
          => UNCHANGED <<steps, currentStepIndex, isPlaying, isLoading, pipeline, fetches,
                         submits, sources, tasks, audioSourceRef>>]_vars
    /\ [][lastEvent'.type \in {"submit", "submitIgnored"}
          => (lastEvent'.type = "submit"
                <=> (/\ ~isLoading
                     /\ pipeline.phase = "idle"
                     /\ (trim(lastEvent'.ret.value) # <<>> \/ lastEvent'.outcome = "image")))]_vars
    /\ [](pipeline.phase = "generating" => isLoading)

\* A question was submitted while the generation request of the one before
\* was in flight, and was ignored.
C33_Witness ==
    /\ lastEvent.type = "submitIgnored"
    /\ lastEvent.ret.value = <<"x">>
    /\ isLoading
    /\ pipeline.phase = "generating"
    /\ submits = 1


\* C34: in the API-key App no step taken while the key is empty issues a
\* generation or narration request; the form and the player are used only
\* with a key and the welcome screen only without one; and the key the
\* welcome screen hands over is trimmed and not empty.
C34_NoRequestWithoutKey ==
    /\ [][(variant = "apikey" /\ ~apiKey)
          => (/\ fetches' \subseteq fetches
              /\ pipeline'.phase = "generating" => pipeline.phase = "generating")]_vars
    /\ [][(/\ variant = "apikey"
           /\ lastEvent'.type \in {"submit", "submitIgnored", "next", "nextIgnored", "prev",
                                   "prevIgnored", "seek", "playPause", "clearApiKey"})
          => apiKey]_vars
    /\ [][lastEvent'.type \in {"setApiKey", "keyRejected"} => ~apiKey]_vars
    /\ [][lastEvent'.type = "setApiKey"
          => (/\ apiKey'
              /\ lastEvent'.ret.value # <<>>
              /\ trim(lastEvent'.ret.value) = lastEvent'.ret.value)]_vars


\* C35: a generation request is issued by a submit and by nothing else, one
\* per submit; narration requests are issued only by the continuation of that
\* submission's generation (the awaited request for step 0 in the pre-loading
\* App, the background requests in the others) and by the continuation of the
\* awaited request (the background requests for the steps after step 0), for
\* steps of the current submission, one per step; the return of a request,
\* failed or not, issues no request.
C35_NothingRetried ==
    /\ [][lastEvent'.type = "submit"
          <=> (pipeline'.phase = "generating" /\ pipeline.phase # "generating")]_vars
    /\ [][pipeline'.phase = "voice0" /\ pipeline.phase # "voice0"
          => (lastEvent'.type = "generated" /\ pipeline.phase = "generating"
              /\ fetches' = fetches)]_vars
    /\ [][fetches' \ fetches # {}
          => (/\ \/ lastEvent'.type = "generated" /\ pipeline.phase = "generating"
                    /\ variant # "preload"
                 \/ lastEvent'.type = "voice0" /\ pipeline.phase = "voice0"
                    /\ \A f \in fetches' \ fetches : f.index >= 1
              /\ pipeline'.phase = "idle"
              /\ \A f \in fetches' \ fetches :
                    /\ f.gen = submits
                    /\ f.index < Len(steps')
                    /\ \A h \in fetches' : (h.gen = f.gen /\ h.index = f.index) => h = f)]_vars
    /\ [][lastEvent'.type = "fetch" => fetches' \subseteq fetches /\ pipeline' = pipeline]_vars

\* A background narration request failed and no request is left or was made.
C35_Witness ==
    /\ lastEvent.type = "fetch"
    /\ lastEvent.outcome = "requestFails"
    /\ lastEvent.arg = 1
    /\ fetches = {}
    /\ pipeline.phase = "idle"
    /\ ~isLoading

Next ==
    \/ onPlayPause
    \/ onNext
    \/ onPrev
    \/ \E j \in 0..(MaxSteps - 1) : handleSeek(j)
    \/ InputSectionSubmit
    \/ \E o \in GenOutcomes, m \in 0..MaxSteps : GenerationResolved(o, m)
    \/ \E vo \in VoiceOutcomes, do \in DecodeOutcomes : FirstVoiceResolved(vo, do)
    \/ \E f \in fetches, vo \in VoiceOutcomes, do \in DecodeOutcomes : FetchResolved(f, vo, do)
    \/ \E id \in 1..MaxSources : AudioEnded(id)
    \/ \E i \in 1..MaxTasks : StoppedSourceEnded(i)
    \/ \E i \in 1..MaxTasks : TimerFired(i)
    \/ setApiKey
    \/ clearApiKey

Spec == Init /\ [][Next]_vars
====
